---- MODULE Spec2Model ----
(***************************************************************************)
(* FocusTimer v9 (src/application.py): the timer engine (start / pause /   *)
(* stop, the tick worker threads, the callbacks they hand to the Tk event  *)
(* loop with after(0, ...), _finish_session and the alarm worker) and the  *)
(* floating "time only" panel (open / close / toggle, drag, release, wheel  *)
(* and grip resize, Configure events, wallpaper redraw, font fit, notes).  *)
(*                                                                         *)
(* One step of the model is one handler run on the Tk thread, or one       *)
(* statement group of a worker thread between two reads of shared flags.   *)
(* Durations are counted in seconds, one worker tick per second.  The      *)
(* controls of the program produce multiples of 60 seconds; the tick loop  *)
(* is the same for every duration, so the model draws durations from       *)
(* 1..MaxTarget to keep the runs short.                                    *)
(***************************************************************************)
EXTENDS Integers, Sequences, FiniteSets, TLC

\* ----------------------------------------------------------------- bounds
MaxTarget == 2
MaxTime == MaxTarget + 1
MaxSessions == 1
MaxPending == 1
MaxWheelUp == 1
MaxText == 2
MaxFitLen == 8
MaxBlocks == 2
MaxWorkers == 2

\* ------------------------------------------------------- program constants
DefaultW == 560
DefaultH == 260
ScreenW == 1920
ScreenH == 1080

NoText == <<>>
NoPos == <<>>
NoSize == <<>>

TaskNames == {"t1", "t2"}
Durations == 1..MaxTarget
Modes == {"countdown", "countup"}

VARIABLES
  timer_running,      \* self._timer_running
  timer_paused,       \* self._timer_paused
  mode,               \* self._mode
  countdown_seconds,  \* self._countdown_seconds
  timer_label,        \* text of self.timer_label, as <<h, m, s>>
  workers,            \* the tick threads started so far, oldest first
  pending,            \* callbacks queued with after(0, ...), oldest first
  beep,               \* data["beep"]
  tasks,              \* data["tasks"], in insertion order
  task_var,           \* self.task_var
  sessions,           \* data["sessions"]
  alarm_thr,          \* alarm worker threads started and not yet run
  minimal_win,        \* self.minimal_win
  minimal_label,      \* text of self.minimal_label, NoText when unset
  minimal_info,       \* self.minimal_info
  minimal_bg,         \* self.minimal_bg
  minimal_notes,      \* self.minimal_notes
  minimal_font,       \* font size of self.minimal_label
  toplevels,          \* Toplevel windows of the panel alive in Tk
  win_pos,            \* position of the panel window
  win_size,           \* size of the panel window
  drag_off,           \* self._drag_off
  ptr,                \* pointer position on the screen
  b1_down,            \* mouse button 1 is held down on the panel
  minimal_pos,        \* data["minimal_pos"]
  minimal_size,       \* data["minimal_size"]
  show_future,        \* data["minimal_show_future"]
  show_notes,         \* data["minimal_show_notes"]
  sess,               \* history: the session started last
  stop_seen,          \* history: stop_timer has ended a session
  fin_log,            \* history: the runs of _finish_session since the last start
  pause_mark,         \* history: per worker, its value when Pause was pressed
  worker_ui,          \* history: Tk calls made by worker threads themselves
  rejected,           \* history: the handler whose guard returned at once in
                      \* the step just taken, "" when the step did something
  last_min_h,         \* self._last_min_h
  last_min_wallpaper_size, \* self._last_min_wallpaper_size
  cfg_pending,        \* a <Configure> event of the panel waits in the Tk queue
  cfg_seen,           \* history: the size the last <Configure> event carried
  drawn,              \* history: the size _draw_min_wallpaper composed at in
                      \* the last panel step, NoSize when it composed nothing
  gesture,            \* history: the pointer gesture of the last panel step
  notes_text,         \* contents of the Text widget self.minimal_notes
  notes_memory,       \* data["minimal_notes_memory"]
  notes_save_path,    \* data["notes_save_path"] is set
  notes_file,         \* the blocks appended to the notes file
  dialog,             \* history: the messageboxes shown by the last panel step
  notes_at_close,     \* history: contents of the notes region at the last close
  fit_w,              \* arguments and result of a call of
  fit_h,              \*   _auto_font_minimal_by_wh(w, h, text),
  fit_n,              \*   fit_n the length of text,
  fit_size,           \*   fit_size 0 before the call
  files,              \* the image files: "missing", "bad" (there, not an image
                      \* PIL can decode) or the average colour of the image
  pil,                \* the PIL import succeeded: Image, ImageTk, ImageOps are set
  wallpaper_main_file,    \* data["wallpaper_main_file"]
  wallpaper_main_dir,     \* data["wallpaper_main_dir"] is set
  wallpaper_fit_pct,      \* data["wallpaper_fit_pct"]
  wallpaper_min_file,     \* data["wallpaper_min_file"]
  wallpaper_min_dir,      \* data["wallpaper_min_dir"] is set
  wallpaper_min_fit_pct,  \* data["wallpaper_min_fit_pct"]
  wallpaper_color_cache,  \* data["wallpaper_color_cache"]
  saved_color_cache,  \* the colour cache in data.json, as the save_data calls of
                      \* avg_color_hex leave it
  stage_bg,           \* background colour of the canvas self.stage
  stage_img,          \* size of the image item tagged "bg" on self.stage
  min_bg_color,       \* background colour of the canvas self.minimal_bg
  min_img,            \* size of the image item tagged "bg" on self.minimal_bg
  last_call,          \* history: the last call of avg_color_hex
  wall_exc,           \* history: an except clause caught an exception in the
                      \* last run of a wallpaper draw or of avg_color_hex
  cmp_w,              \* arguments and result of the scaling of a wallpaper:
  cmp_h,              \*   viewport cmp_w x cmp_h, stored fit percent cmp_pct,
  cmp_pct,            \*   source image of size cmp_src,
  cmp_src,            \*   cmp_side the side of the scaling box (NoMark
  cmp_side,           \*   before the scaling), cmp_img the size of the
  cmp_img,            \*   scaled image
  wallpaper_align,        \* data["wallpaper_align"]
  wallpaper_min_align,    \* data["wallpaper_min_align"]
  repaint_scheduled,  \* self._repaint_scheduled
  repaint_after,      \* the after(50, self._apply_main_wallpaper) calls not yet run
  repaint_due,        \* history: a <Configure> event of self.layer came after
                      \* the last run of _apply_main_wallpaper
  raised              \* history: a handler ended with an exception no except
                      \* clause of the program caught (Tk reports it and goes on)

timerVars == <<timer_running, timer_paused, mode, countdown_seconds, timer_label>>
threadVars == <<workers, pending, alarm_thr>>
storeVars == <<beep, tasks, task_var, sessions>>
panelVars == <<minimal_win, minimal_label, minimal_info, minimal_bg, minimal_notes,
               minimal_font, toplevels, win_pos, win_size>>
dragVars == <<drag_off, ptr, b1_down>>
geomVars == <<minimal_pos, minimal_size, show_future, show_notes>>
histVars == <<sess, stop_seen, fin_log, pause_mark, worker_ui>>
paintVars == <<last_min_h, last_min_wallpaper_size, cfg_pending, cfg_seen, drawn, gesture>>
notesVars == <<notes_text, notes_memory, notes_save_path, notes_file, dialog, notes_at_close>>
fitVars == <<fit_w, fit_h, fit_n, fit_size>>
wallSet == <<wallpaper_main_file, wallpaper_main_dir, wallpaper_fit_pct,
             wallpaper_min_file, wallpaper_min_dir, wallpaper_min_fit_pct,
             wallpaper_align, wallpaper_min_align>>
throttle == <<repaint_scheduled, repaint_after>>
cmpVars == <<cmp_w, cmp_h, cmp_pct, cmp_src, cmp_side, cmp_img>>
wallEnv == <<files, pil, wallSet, stage_bg, stage_img, cmpVars, throttle, repaint_due, raised>>
minPaint == <<min_bg_color, min_img, wallpaper_color_cache, saved_color_cache, last_call, wall_exc>>
wallVars == <<wallEnv, minPaint>>
extVars == <<paintVars, notesVars, fitVars, wallVars>>
vars == <<timerVars, threadVars, storeVars, panelVars, dragVars, geomVars, histVars, rejected,
          extVars>>

\* ---------------------------------------------------------------- helpers
Max(a, b) == IF a >= b THEN a ELSE b
Min(a, b) == IF a <= b THEN a ELSE b
Abs(a) == IF a >= 0 THEN a ELSE 0 - a

\* time.strftime("%H:%M:%S", time.gmtime(max(0, sec)))
FormatHMS(sec) ==
  LET s == Max(0, sec)
  IN  <<(s \div 3600) % 24, (s % 3600) \div 60, s % 60>>

\* h, m, s = map(int, shown.split(":")); h*3600 + m*60 + s
ParseHMS(t) == t[1] * 3600 + t[2] * 60 + t[3]

\* k = task_var if task_var in data["tasks"] else next(iter(data["tasks"]))
TaskIndex(name) ==
  IF \E i \in 1..Len(tasks) : tasks[i].name = name
  THEN CHOOSE i \in 1..Len(tasks) : tasks[i].name = name
  ELSE 1

\* self._auto_font_minimal(h): max(24, min(200, int(h * 0.45)))
auto_font_minimal(h) == Max(24, Min(200, (h * 45) \div 100))

\* self._auto_font_minimal_by_wh(w, h, text) with max(1, len(text)) and no
\* "text or '00:00:00'"
auto_font_minimal_by_wh_no_default(w, h, n) ==
  LET len == Max(1, n)
      by_h == (h * 45) \div 100
      by_w == (w * 80) \div (100 * len)
  IN  Max(24, Min(280, Min(by_h, by_w)))

\* self._auto_font_minimal_by_wh(w, h, text) with the width bound multiplied
\* by the length of the text
auto_font_minimal_by_wh_times_len(w, h, n) ==
  LET len == Max(1, IF n = 0 THEN 8 ELSE n)
      by_h == (h * 45) \div 100
      by_w == (w * 80 * len) \div 100
  IN  Max(24, Min(280, Min(by_h, by_w)))

\* self._auto_font_minimal_by_wh(w, h, text), n the length of text:
\* n = max(1, len(text or "00:00:00")), int(min(h*0.45, (w*0.80)/n)),
\* max(24, min(280, size))
auto_font_minimal_by_wh(w, h, n) ==
  LET len == Max(1, IF n = 0 THEN 8 ELSE n)
      by_h == (h * 45) \div 100
      by_w == (w * 80) \div (100 * len)
  IN  Max(24, Min(280, Min(by_h, by_w)))

\* the text of a label is always HH:MM:SS, eight characters
TextLen(t) == 8

NoMark == 0 - 1

\* texts of the notes region: strings over a letter and a blank
Chars == {"a", " "}
Texts == UNION {[1..k -> Chars] : k \in 0..MaxText}

\* no panel with a notes region has been closed yet
NoClose == <<"-">>

\* str.strip(): leading and trailing white space removed
RECURSIVE LStrip(_)
LStrip(t) == IF t # <<>> /\ Head(t) = " " THEN LStrip(Tail(t)) ELSE t
RECURSIVE RStrip(_)
RStrip(t) == IF t # <<>> /\ t[Len(t)] = " " THEN RStrip(SubSeq(t, 1, Len(t) - 1)) ELSE t
Strip(t) == RStrip(LStrip(t))

\* arguments of _auto_font_minimal_by_wh
FitWidths == {1, 280, 560, 1120, 2240}
FitHeights == {1, 160, 260, 520, 700, 1400}
FitLens == 0..MaxFitLen

\* image files the wallpaper settings can name, and the average colours
\* avg_color_hex can compute for an image
Paths == {"p1", "p2"}
Colors == {"#204060", "#a0a0a0"}
FileStates == {"missing", "bad"} \cup Colors

\* fallback="#f0f0f3"
Fallback == "#f0f0f3"

\* avg_color_hex has not been called
NoCall == [path |-> "-", color |-> "", decoded |-> FALSE, valid |-> FALSE]

\* no image item tagged "bg" on a canvas
NoImage == <<>>

\* pixel size of the image in file p
SrcSize(p) == IF p = "p1" THEN <<400, 300>> ELSE <<300, 500>>

\* ------------------------------------------------------------------- Init
InitCore ==
  /\ timer_running = FALSE
  /\ timer_paused = FALSE
  /\ mode = "countdown"
  /\ countdown_seconds \in 1..MaxTarget
  /\ timer_label = <<0, 0, 0>>
  /\ workers = <<>>
  /\ pending = <<>>
  /\ beep = TRUE
  /\ tasks = <<[name |-> "t1", total |-> 0], [name |-> "t2", total |-> 0]>>
  /\ task_var = "t1"
  /\ sessions = <<>>
  /\ alarm_thr = 0
  /\ minimal_win = "None"
  /\ minimal_label = NoText
  /\ minimal_info = "None"
  /\ minimal_bg = "None"
  /\ minimal_notes = "None"
  /\ minimal_font = 0
  /\ toplevels = 0
  /\ win_pos = NoPos
  /\ win_size = <<0, 0>>
  /\ drag_off = <<0, 0>>
  /\ ptr = <<0, 0>>
  /\ b1_down = FALSE
  /\ minimal_pos = NoPos
  /\ show_future = TRUE
  /\ show_notes = TRUE
  /\ sess = [kind |-> "", target |-> 0, paused |-> FALSE]
  /\ stop_seen = FALSE
  /\ fin_log = <<>>
  /\ pause_mark = <<>>
  /\ worker_ui = {}
  /\ rejected = ""
  /\ last_min_h = 0
  /\ last_min_wallpaper_size = <<0, 0>>
  /\ cfg_pending = FALSE
  /\ cfg_seen = <<0, 0>>
  /\ drawn = NoSize
  /\ gesture = ""
  /\ notes_text = <<>>
  /\ notes_memory = <<>>
  /\ notes_save_path = FALSE
  /\ notes_file = <<>>
  /\ dialog = <<>>
  /\ notes_at_close = NoClose
  /\ fit_size = 0
  /\ wallpaper_main_file = "None"
  /\ wallpaper_main_dir = FALSE
  /\ wallpaper_fit_pct = 92
  /\ wallpaper_min_file = "None"
  /\ wallpaper_min_dir = FALSE
  /\ wallpaper_min_fit_pct = 92
  /\ wallpaper_color_cache = [p \in Paths |-> "absent"]
  /\ saved_color_cache = [p \in Paths |-> "absent"]
  /\ stage_bg = Fallback
  /\ stage_img = NoImage
  /\ min_bg_color = ""
  /\ min_img = NoImage
  /\ last_call = NoCall
  /\ wall_exc = FALSE
  /\ cmp_side = NoMark
  /\ cmp_img = NoImage
  /\ wallpaper_align = "center"
  /\ wallpaper_min_align = "center"
  /\ repaint_scheduled = FALSE
  /\ repaint_after = 0
  /\ repaint_due = FALSE
  /\ raised = FALSE

\* no image file, PIL imported, and no scaling asked for
NoWall ==
  /\ files = [p \in Paths |-> "missing"]
  /\ pil = TRUE
  /\ cmp_w = DefaultW /\ cmp_h = DefaultH /\ cmp_pct = 92 /\ cmp_src = <<1, 1>>

\* a first run: data["minimal_size"] is the default
Init ==
  /\ InitCore
  /\ NoWall
  /\ minimal_size = <<DefaultW, DefaultH>>
  /\ fit_w = DefaultW /\ fit_h = DefaultH /\ fit_n = 8

\* a later run: data["minimal_size"] was left at 300x160 by thirteen
\* wheel-down notches of an earlier run (560 - 13*20, max(160, 260 - 13*10))
StoredW == 300
StoredH == 160
GeomInit ==
  /\ InitCore
  /\ NoWall
  /\ minimal_size = <<StoredW, StoredH>>
  /\ fit_w = DefaultW /\ fit_h = DefaultH /\ fit_n = 8

\* ------------------------------------------------------------ timer core
\* _render_time that forgets the panel label
_render_time_main_only(sec) ==
  /\ timer_label' = FormatHMS(sec)
  /\ minimal_label' = minimal_label

\* _render_time(sec): the main label, then the panel label when there is one
_render_time(sec) ==
  /\ timer_label' = FormatHMS(sec)
  /\ minimal_label' = IF minimal_label # NoText THEN FormatHMS(sec) ELSE minimal_label

\* _finish_session that leaves the paused flag as it is
_finish_session_keeps_pause(used, src, w) ==
  /\ timer_running' = FALSE
  /\ timer_paused' = timer_paused
  /\ alarm_thr' = IF beep THEN alarm_thr + 1 ELSE alarm_thr
  /\ IF used > 0 /\ Len(tasks) > 0
     THEN LET k == TaskIndex(task_var)
          IN  /\ tasks' = [tasks EXCEPT ![k].total = @ + used]
              /\ sessions' = Append(sessions, [task |-> tasks[k].name, seconds |-> used])
     ELSE UNCHANGED <<tasks, sessions>>
  /\ timer_label' = FormatHMS(0)
  /\ minimal_label' = IF minimal_label # NoText THEN FormatHMS(0) ELSE minimal_label
  /\ fin_log' = Append(fin_log, [src |-> src, w |-> w, used |-> used])

\* _finish_session(used_seconds); src and w say who called it (history only)
_finish_session(used, src, w) ==
  /\ timer_running' = FALSE
  /\ timer_paused' = FALSE
  /\ alarm_thr' = IF beep THEN alarm_thr + 1 ELSE alarm_thr
  /\ IF used > 0 /\ Len(tasks) > 0
     THEN LET k == TaskIndex(task_var)
          IN  /\ tasks' = [tasks EXCEPT ![k].total = @ + used]
              /\ sessions' = Append(sessions, [task |-> tasks[k].name, seconds |-> used])
     ELSE UNCHANGED <<tasks, sessions>>
  /\ _render_time(0)
  /\ fin_log' = Append(fin_log,
                  [src |-> src, w |-> w, used |-> used])

\* the thread run() of start_timer, started: remain = total (countdown) or
\* t0 = time.time() (countup); el is time.time() - t0 in whole seconds
NewWorker(kind, total) ==
  [kind |-> kind, total |-> total,
   val |-> IF kind = "countdown" THEN total ELSE NoMark,
   el |-> 0,
   pc |-> "ready"]

\* start_timer without its "if self._timer_running: return"
start_timer_unguarded ==
  /\ timer_running' = TRUE
  /\ timer_paused' = FALSE
  /\ IF mode = "countdown"
     THEN /\ timer_label' = FormatHMS(countdown_seconds)
          /\ minimal_label' = IF minimal_label # NoText THEN FormatHMS(countdown_seconds)
                              ELSE minimal_label
     ELSE UNCHANGED <<timer_label, minimal_label>>
  /\ workers' = Append(workers, NewWorker(mode, IF mode = "countdown" THEN countdown_seconds ELSE 0))
  /\ pause_mark' = Append(pause_mark, NoMark)
  /\ rejected' = ""
  /\ fin_log' = <<>>
  /\ sess' = [kind |-> mode, target |-> IF mode = "countdown" THEN countdown_seconds ELSE 0,
              paused |-> FALSE]
  /\ UNCHANGED <<extVars, mode, countdown_seconds, pending, alarm_thr, storeVars,
                 minimal_win, minimal_info, minimal_bg, minimal_notes, minimal_font,
                 toplevels, win_pos, win_size, dragVars, geomVars, stop_seen, worker_ui>>

start_timer ==
  IF timer_running
  THEN /\ rejected' = "start_timer"
       /\ UNCHANGED <<extVars, timerVars, threadVars, storeVars, panelVars, dragVars, geomVars, histVars>>
  ELSE /\ timer_running' = TRUE
       /\ timer_paused' = FALSE
       /\ IF mode = "countdown"
          THEN _render_time(countdown_seconds)
          ELSE UNCHANGED <<timer_label, minimal_label>>
       /\ workers' = Append(workers, NewWorker(mode, IF mode = "countdown" THEN countdown_seconds ELSE 0))
       /\ pause_mark' = Append(pause_mark, NoMark)
       /\ rejected' = ""
       /\ fin_log' = <<>>
       /\ sess' = [kind |-> mode, target |-> IF mode = "countdown" THEN countdown_seconds ELSE 0,
                   paused |-> FALSE]
       /\ UNCHANGED stop_seen
       /\ UNCHANGED <<extVars, mode, countdown_seconds, pending, alarm_thr, storeVars,
                      minimal_win, minimal_info, minimal_bg, minimal_notes, minimal_font,
                      toplevels, win_pos, win_size, dragVars, geomVars, worker_ui>>

pause_timer ==
  IF ~timer_running
  THEN /\ rejected' = "pause_timer"
       /\ UNCHANGED <<extVars, timerVars, threadVars, storeVars, panelVars, dragVars, geomVars, histVars>>
  ELSE /\ timer_paused' = ~timer_paused
       /\ pause_mark' = [i \in 1..Len(workers) |->
                           IF ~timer_paused /\ workers[i].pc # "done"
                           THEN workers[i].val ELSE pause_mark[i]]
       /\ sess' = [sess EXCEPT !.paused = TRUE]
       /\ rejected' = ""
       /\ UNCHANGED <<extVars, timer_running, mode, countdown_seconds, timer_label, threadVars,
                      storeVars, panelVars, dragVars, geomVars, stop_seen, fin_log, worker_ui>>

stop_timer ==
  IF ~timer_running
  THEN /\ rejected' = "stop_timer"
       /\ UNCHANGED <<extVars, timerVars, threadVars, storeVars, panelVars, dragVars, geomVars, histVars>>
  ELSE LET shown == ParseHMS(timer_label)
           used == IF mode = "countdown" THEN countdown_seconds - shown ELSE shown
       IN  /\ _finish_session(Max(0, used), "stop", 0)
           /\ rejected' = ""
           /\ stop_seen' = TRUE
           /\ UNCHANGED <<extVars, mode, countdown_seconds, workers, pending, beep, task_var,
                          minimal_win, minimal_info, minimal_bg, minimal_notes, minimal_font,
                          toplevels, win_pos, win_size, dragVars, geomVars,
                          sess, pause_mark, worker_ui>>

\* _set_preset(minutes) and _apply_custom_time(w, m): same assignments
SetDuration(d) ==
  /\ countdown_seconds' = d
  /\ mode' = "countdown"
  /\ _render_time(d)
  /\ rejected' = ""
  /\ UNCHANGED <<extVars, timer_running, timer_paused, threadVars, storeVars,
                 minimal_win, minimal_info, minimal_bg, minimal_notes, minimal_font,
                 toplevels, win_pos, win_size, dragVars, geomVars, histVars>>

\* the two mode radio buttons write self._mode
SetMode(m) ==
  /\ mode # m
  /\ mode' = m
  /\ rejected' = ""
  /\ UNCHANGED <<extVars, timer_running, timer_paused, countdown_seconds, timer_label, threadVars,
                 storeVars, panelVars, dragVars, geomVars, histVars>>

_toggle_beep ==
  /\ beep' = ~beep
  /\ rejected' = ""
  /\ UNCHANGED <<extVars, timerVars, threadVars, tasks, task_var, sessions, panelVars, dragVars,
                 geomVars, histVars>>

\* _del_task on the selected row of the task table
_del_task(name) ==
  /\ \E i \in 1..Len(tasks) : tasks[i].name = name
  /\ tasks' = SelectSeq(tasks, LAMBDA t : t.name # name)
  /\ rejected' = ""
  /\ UNCHANGED <<extVars, timerVars, threadVars, beep, task_var, sessions, panelVars, dragVars,
                 geomVars, histVars>>

\* the task combobox writes self.task_var
SelectTask(name) ==
  /\ task_var # name
  /\ task_var' = name
  /\ rejected' = ""
  /\ UNCHANGED <<extVars, timerVars, threadVars, beep, tasks, sessions, panelVars, dragVars,
                 geomVars, histVars>>

\* ---------------------------------------------------------- tick workers
\* A thread is "ready" at the head of its while loop, "sleep" inside
\* time.sleep(1), "done" after its last statement.  One step runs the loop
\* from the while condition to the next sleep.

\* a thread that has ended has no locals left
Ended == [kind |-> "", total |-> 0, val |-> 0, el |-> 0, pc |-> "done"]

\* LoopCond with the countdown test widened to remain >= 0
LoopCond_off_by_one(w) ==
  IF w.kind = "countdown" THEN timer_running /\ w.val >= 0 ELSE timer_running

\* the while condition: "self._timer_running and remain>0" (countdown),
\* "self._timer_running" (countup)
LoopCond(w) == IF w.kind = "countdown" THEN timer_running /\ w.val > 0 ELSE timer_running

\* the value a tick hands over: remain - 1, or int(time.time() - t0)
TickValue(w) == IF w.kind = "countdown" THEN w.val - 1 ELSE w.el

\* run(): "if not self._timer_paused": one tick, after(0, _render_time), sleep(1)
W_Tick(i) ==
  LET w == workers[i]
  IN  /\ w.pc = "ready"
      /\ LoopCond(w)
      /\ ~timer_paused
      /\ Len(pending) < MaxPending
      /\ workers' = [workers EXCEPT ![i].val = TickValue(w), ![i].pc = "sleep"]
      /\ pending' = Append(pending, [cb |-> "_render_time", arg |-> TickValue(w), w |-> i])
      /\ pause_mark' = [pause_mark EXCEPT ![i] = NoMark]
      /\ rejected' = ""
      /\ UNCHANGED <<extVars, timerVars, alarm_thr, storeVars, panelVars, dragVars, geomVars,
                     sess, stop_seen, fin_log, worker_ui>>

\* run(): while paused the loop only polls, time.sleep(0.1), with no effect;
\* when the while condition is false the thread leaves the loop: a countdown
\* thread hands over _finish_session(total - remain), a countup thread ends
W_Exit(i) ==
  LET w == workers[i]
  IN  /\ w.pc = "ready"
      /\ ~LoopCond(w)
      /\ IF w.kind = "countdown"
         THEN /\ Len(pending) < MaxPending
              /\ pending' = Append(pending,
                              [cb |-> "_finish_session", arg |-> w.total - w.val, w |-> i])
         ELSE UNCHANGED pending
      /\ workers' = [workers EXCEPT ![i] = Ended]
      /\ pause_mark' = [pause_mark EXCEPT ![i] = NoMark]
      /\ rejected' = ""
      /\ UNCHANGED <<extVars, timerVars, alarm_thr, storeVars, panelVars, dragVars, geomVars,
                     sess, stop_seen, fin_log, worker_ui>>

\* one second passes: every time.sleep(1) under way returns, and the clock
\* of every countup thread alive moves on.  A thread at the head of its
\* loop takes its turn well within the second, unless it is polling the
\* paused flag
Tick ==
  /\ \E i \in 1..Len(workers) : workers[i].pc # "done"
  /\ \A i \in 1..Len(workers) : workers[i].el < MaxTime
  /\ \A i \in 1..Len(workers) :
       workers[i].pc = "ready" => (LoopCond(workers[i]) /\ timer_paused)
  /\ workers' = [i \in 1..Len(workers) |->
                   LET w == workers[i]
                   IN  [w EXCEPT !.pc = IF w.pc = "sleep" THEN "ready" ELSE w.pc,
                                 !.el = IF w.kind = "countup" THEN w.el + 1 ELSE w.el]]
  /\ rejected' = ""
  /\ UNCHANGED <<extVars, timerVars, pending, alarm_thr, storeVars, panelVars, dragVars, geomVars,
                 histVars>>

\* the Tk event loop runs the oldest callback queued with after(0, ...)
UIRun ==
  /\ pending # <<>>
  /\ pending' = Tail(pending)
  /\ LET c == Head(pending)
     IN  IF c.cb = "_render_time"
         THEN /\ _render_time(c.arg)
              /\ rejected' = ""
              /\ UNCHANGED <<timer_running, timer_paused, alarm_thr, tasks, sessions, fin_log>>
         ELSE /\ _finish_session(c.arg, "run", c.w)
              /\ rejected' = ""
  /\ UNCHANGED <<extVars, mode, countdown_seconds, workers, beep, task_var,
                 minimal_win, minimal_info, minimal_bg, minimal_notes, minimal_font,
                 toplevels, win_pos, win_size, dragVars, geomVars, sess, stop_seen,
                 pause_mark, worker_ui>>

\* _play_alarm.worker: which branch plays, from what the runtime offers
AlarmPath(sf_ok, sf_wav, has_winsound, has_playsound, raises) ==
  IF raises THEN "bell"
  ELSE IF sf_ok /\ has_winsound /\ sf_wav THEN "winsound_file"
  ELSE IF sf_ok /\ has_playsound THEN "playsound"
  ELSE IF has_winsound THEN "winsound_alias"
  ELSE "bell"

\* the alarm thread of _play_alarm; its last resort is self.bell(), twice
AlarmWorker ==
  /\ alarm_thr > 0
  /\ alarm_thr' = alarm_thr - 1
  /\ \E sf_ok, sf_wav, ws, ps, raises \in BOOLEAN :
       worker_ui' = IF AlarmPath(sf_ok, sf_wav, ws, ps, raises) = "bell"
                    THEN worker_ui \cup {"bell"} ELSE worker_ui
  /\ rejected' = ""
  /\ UNCHANGED <<extVars, timerVars, workers, pending, storeVars, panelVars, dragVars,
                 geomVars, sess, stop_seen, fin_log, pause_mark>>

\* ------------------------------------------------------------ wallpaper
\* os.path.exists(path)
Exists(p) == files[p] # "missing"

\* list_images(dir): the image files of the directory, every file of Paths
\* that exists lying in it
list_images(dir) == IF dir THEN {p \in Paths : Exists(p)} ELSE {}

\* _pick_main / _pick_min: the single file when it is set and exists, else
\* random.choice of the images of the directory, else None; the set of the
\* paths the call can return
Pick(f, dir) ==
  IF f # "None" /\ Exists(f) THEN {f}
  ELSE IF list_images(dir) # {} THEN list_images(dir)
  ELSE {"None"}

_pick_main == Pick(wallpaper_main_file, wallpaper_main_dir)
_pick_min == Pick(wallpaper_min_file, wallpaper_min_dir)

\* avg_color_hex(path, data=self.data) goes past its first return
Usable(p) == pil /\ p # "None" /\ Exists(p)

\* avg_color_hex that reaches Image.open(path) whatever the cache holds
Decodes_ignoring_cache(p) == Usable(p)

\* avg_color_hex reaches Image.open(path): no string cached for the path
Decodes(p) == Usable(p) /\ wallpaper_color_cache[p] = "absent"

\* the image is decoded, averaged and written to the cache
Stores(p) == Decodes(p) /\ files[p] \in Colors

\* avg_color_hex that looks in the cache before it tests the path
avg_color_hex_cache_first(p, ok) ==
  IF p \in Paths /\ wallpaper_color_cache[p] # "absent" THEN wallpaper_color_cache[p]
  ELSE IF ~Usable(p) THEN Fallback
  ELSE IF files[p] \in Colors /\ ok THEN files[p]
  ELSE Fallback

\* the colour avg_color_hex(path, data=self.data) returns; ok says whether
\* its save_data(data) succeeds.  save_data is called inside the try, after
\* the cache entry is written: when it raises, the except returns fallback
avg_color_hex(p, ok) ==
  IF ~Usable(p) THEN Fallback
  ELSE IF ~Decodes(p) THEN wallpaper_color_cache[p]
  ELSE IF files[p] \in Colors /\ ok THEN files[p]
  ELSE Fallback

\* the except clause of avg_color_hex runs
SamplerCaught(p, ok) == Decodes(p) /\ (files[p] \notin Colors \/ ~ok)

\* what a call of avg_color_hex(path, data=self.data) leaves behind
Sampler(p, ok) ==
  /\ wallpaper_color_cache' =
       IF Stores(p) THEN [wallpaper_color_cache EXCEPT ![p] = files[p]]
       ELSE wallpaper_color_cache
  /\ saved_color_cache' = IF Stores(p) /\ ok THEN wallpaper_color_cache' ELSE saved_color_cache
  /\ last_call' = [path |-> p, color |-> avg_color_hex(p, ok), decoded |-> Decodes(p),
                    valid |-> (pil /\ p \in Paths /\ files[p] \in Colors)]

\* round(a / b) as Python rounds: to the nearest integer, a tie to the even one
Round(a, b) ==
  LET q == a \div b
      r == a % b
  IN  IF 2 * r < b THEN q
      ELSE IF 2 * r > b THEN q + 1
      ELSE IF q % 2 = 0 THEN q ELSE q + 1

\* short = min(w, h) * fit_pct // 100, the stored percent used as it is
ShortSide_unclamped(w, h, pct) == (Min(w, h) * pct) \div 100

\* short = min(w, h) * max(10, min(fit_pct, 100)) // 100
ShortSide(w, h, pct) == (Min(w, h) * Max(10, Min(pct, 100))) \div 100

\* ImageOps.contain(im, (short, short)) for an image of size src: the size of
\* the image it returns, its longer edge short and the other edge
\* round(shorter / longer * short); NoImage when it raises (a box of side 0
\* divides by zero, resize refuses an edge of 0)
contain(src, short) ==
  IF short = 0 THEN NoImage
  ELSE LET size == IF src[1] > src[2] THEN <<short, Round(src[2] * short, src[1])>>
                   ELSE IF src[1] < src[2] THEN <<Round(src[1] * short, src[2]), short>>
                   ELSE <<short, short>>
       IN  IF size[1] = 0 \/ size[2] = 0 THEN NoImage ELSE size

\* the try block of a draw: Image.open(path), convert, contain, PhotoImage;
\* NoImage when one of them raises
Scaled(path, short) ==
  IF files[path] \in Colors THEN contain(SrcSize(path), short) ELSE NoImage

\* sizes self.stage reports: 1x1 before Tk has laid it out, then the stage
\* of the 1140x720 window
StageSizes == {<<1, 1>>, <<1140, 640>>}

\* _draw_timer_wallpaper with the stage reporting size sz, _pick_main
\* returning one of picks and data["wallpaper_fit_pct"] holding pct
_draw_timer_wallpaper(sz, ok, picks, pct) ==
  LET w == Max(1, sz[1])
      h == Max(1, sz[2])
  IN  IF ~pil
      THEN /\ stage_bg' = Fallback
           /\ wall_exc' = FALSE
           /\ UNCHANGED <<stage_img, wallpaper_color_cache, saved_color_cache, last_call>>
      ELSE \E path \in picks :
             IF path = "None"
             THEN /\ stage_bg' = Fallback
                  /\ stage_img' = NoImage
                  /\ wall_exc' = FALSE
                  /\ UNCHANGED <<wallpaper_color_cache, saved_color_cache, last_call>>
             ELSE LET im == Scaled(path, ShortSide(w, h, pct))
                  IN  /\ Sampler(path, ok)
                      /\ stage_bg' = avg_color_hex(path, ok)
                      /\ stage_img' = im
                      /\ wall_exc' = (SamplerCaught(path, ok) \/ im = NoImage)

\* _draw_min_wallpaper past its size gate, for a window of size wh
PaintMin(wh) ==
  \E path \in _pick_min, ok \in BOOLEAN :
    IF path = "None"
    THEN /\ min_bg_color' = "#ffffff"
         /\ min_img' = NoImage
         /\ wall_exc' = FALSE
         /\ UNCHANGED <<wallpaper_color_cache, saved_color_cache, last_call>>
    ELSE LET im == Scaled(path, ShortSide(wh[1], wh[2], wallpaper_min_fit_pct))
         IN  /\ Sampler(path, ok)
             /\ min_bg_color' = avg_color_hex(path, ok)
             /\ min_img' = im
             /\ wall_exc' = (SamplerCaught(path, ok) \/ im = NoImage)

\* what no wallpaper handler of the main window touches
offStage == <<timerVars, threadVars, storeVars, panelVars, dragVars, geomVars, histVars,
              paintVars, notesVars, fitVars, cmpVars, min_bg_color, min_img>>

\* an image file is written, replaced or removed outside the program
FileChange(p, st) ==
  /\ files[p] # st
  /\ files' = [files EXCEPT ![p] = st]
  /\ rejected' = ""
  /\ UNCHANGED <<offStage, pil, wallSet, stage_bg, stage_img, wallpaper_color_cache,
                 saved_color_cache, last_call, wall_exc, throttle, repaint_due, raised>>

\* a call avg_color_hex(p, data=self.data)
Sample(p, ok) ==
  /\ Sampler(p, ok)
  /\ wall_exc' = SamplerCaught(p, ok)
  /\ rejected' = ""
  /\ UNCHANGED <<offStage, files, pil, wallSet, stage_bg, stage_img, throttle, repaint_due,
                 raised>>

\* _apply_main_wallpaper: _draw_timer_wallpaper; the method does not touch
\* self._repaint_scheduled
_apply_main_wallpaper ==
  /\ \E sz \in StageSizes, ok \in BOOLEAN : _draw_timer_wallpaper(sz, ok, _pick_main, wallpaper_fit_pct)
  /\ repaint_due' = FALSE
  /\ rejected' = ""
  /\ UNCHANGED <<offStage, files, pil, wallSet, repaint_scheduled, raised>>

\* _choose_wallpaper(single, which) with the file p or the directory chosen
\* in the dialog: the setting is stored and saved; "main" then redraws the
\* stage, "min" calls self._apply_min_wallpaper(), a method the class does
\* not define, so the handler ends there with an AttributeError
_choose_wallpaper(single, which, p) ==
  /\ wallpaper_main_file' = IF single /\ which = "main" THEN p ELSE wallpaper_main_file
  /\ wallpaper_min_file' = IF single /\ which = "min" THEN p ELSE wallpaper_min_file
  /\ wallpaper_main_dir' = IF ~single /\ which = "main" THEN TRUE ELSE wallpaper_main_dir
  /\ wallpaper_min_dir' = IF ~single /\ which = "min" THEN TRUE ELSE wallpaper_min_dir
  /\ IF which = "main"
     THEN \E sz \in StageSizes, ok \in BOOLEAN :
            _draw_timer_wallpaper(sz, ok, Pick(wallpaper_main_file', wallpaper_main_dir'),
                                  wallpaper_fit_pct)
     ELSE UNCHANGED <<stage_bg, stage_img, wallpaper_color_cache, saved_color_cache, last_call,
                      wall_exc>>
  /\ repaint_due' = (which # "main" /\ repaint_due)
  /\ raised' = (raised \/ which # "main")
  /\ rejected' = ""
  /\ UNCHANGED <<offStage, files, pil, wallpaper_fit_pct, wallpaper_min_fit_pct,
                 wallpaper_align, wallpaper_min_align, throttle>>

\* values the fit spinboxes hand over (from_=50, to=100, typed values too),
\* and the values of the align comboboxes
FitPcts == {40, 60, 100}
Aligns == {"top", "center", "bottom"}

\* _apply_fit_pct(which, val): val = max(50, min(100, int(val))) is stored
\* and saved; "main" then redraws the stage, "min" calls
\* self._apply_min_wallpaper(), which the class does not define
_apply_fit_pct(which, val) ==
  LET v == Max(50, Min(100, val))
  IN  /\ wallpaper_fit_pct' = IF which = "main" THEN v ELSE wallpaper_fit_pct
      /\ wallpaper_min_fit_pct' = IF which = "main" THEN wallpaper_min_fit_pct ELSE v
      /\ IF which = "main"
         THEN \E sz \in StageSizes, ok \in BOOLEAN :
                _draw_timer_wallpaper(sz, ok, _pick_main, v)
         ELSE UNCHANGED <<stage_bg, stage_img, wallpaper_color_cache, saved_color_cache,
                          last_call, wall_exc>>
      /\ repaint_due' = (which # "main" /\ repaint_due)
      /\ raised' = (raised \/ which # "main")
      /\ rejected' = ""
      /\ UNCHANGED <<offStage, files, pil, wallpaper_main_file, wallpaper_main_dir,
                     wallpaper_min_file, wallpaper_min_dir, wallpaper_align,
                     wallpaper_min_align, throttle>>

\* _apply_align_and_fit(which) with the combobox holding a: the alignment is
\* stored and saved, then as in _apply_fit_pct
_apply_align_and_fit(which, a) ==
  /\ wallpaper_align' = IF which = "main" THEN a ELSE wallpaper_align
  /\ wallpaper_min_align' = IF which = "main" THEN wallpaper_min_align ELSE a
  /\ IF which = "main"
     THEN \E sz \in StageSizes, ok \in BOOLEAN :
            _draw_timer_wallpaper(sz, ok, _pick_main, wallpaper_fit_pct)
     ELSE UNCHANGED <<stage_bg, stage_img, wallpaper_color_cache, saved_color_cache,
                      last_call, wall_exc>>
  /\ repaint_due' = (which # "main" /\ repaint_due)
  /\ raised' = (raised \/ which # "main")
  /\ rejected' = ""
  /\ UNCHANGED <<offStage, files, pil, wallpaper_main_file, wallpaper_main_dir,
                 wallpaper_min_file, wallpaper_min_dir, wallpaper_fit_pct,
                 wallpaper_min_fit_pct, throttle>>

\* a direct call of _apply_main_wallpaper from a handler of the main window
ApplyMainCall ==
  /\ _apply_main_wallpaper
  /\ UNCHANGED repaint_after

\* _on_layer_configure(e): <Configure> on self.layer; the repaint is queued
\* with after(50, ...) unless the flag says one is queued
_on_layer_configure ==
  /\ IF ~repaint_scheduled
     THEN /\ repaint_scheduled' = TRUE
          /\ repaint_after' = repaint_after + 1
     ELSE UNCHANGED throttle
  /\ repaint_due' = TRUE
  /\ rejected' = ""
  /\ UNCHANGED <<offStage, files, pil, wallSet, stage_bg, stage_img, wallpaper_color_cache,
                 saved_color_cache, last_call, wall_exc, raised>>

\* the event loop runs a callback queued by after(50, self._apply_main_wallpaper)
RepaintRun ==
  /\ repaint_after > 0
  /\ repaint_after' = repaint_after - 1
  /\ _apply_main_wallpaper

\* ------------------------------------------------------- floating panel
\* points of the panel the pointer can grab it at, and screen points the
\* pointer can be moved to
GrabOffsets == {<<10, 10>>, <<200, 40>>}
ScreenPoints == {<<300, 200>>, <<900, 500>>, <<5, 5>>}
GeomGrabs == {<<10, 10>>}
GeomPoints == {<<300, 200>>, <<900, 500>>}

\* the bind calls of _open_minimal on minimal_win, in the order of the source
BindCalls ==
  << <<"<Double-1>", "_close_minimal">>,
     <<"<Button-1>", "_start_drag">>,
     <<"<B1-Motion>", "_on_drag_smooth">>,
     <<"<ButtonRelease-1>", "_save_minimal_pos">>,
     <<"<ButtonRelease-1>", "_recalc_font_after_move">>,
     <<"<Control-MouseWheel>", "_ctrl_wheel_resize_min">>,
     <<"<Configure>", "_on_minimal_configure">> >>

\* widget.bind(event, handler) without add="+" replaces the handler bound
\* before: the handler of an event is the one of the last call that names it
Bound(ev) ==
  LET hits == {i \in 1..Len(BindCalls) : BindCalls[i][1] = ev}
      k == CHOOSE i \in hits : \A j \in hits : j <= i
  IN  BindCalls[k][2]

\* pos = data.get("minimal_pos") or [...] with a test that takes [0, 0] for
\* no position
OpenPos_origin_unset ==
  IF minimal_pos # NoPos /\ minimal_pos # <<0, 0>> THEN minimal_pos
  ELSE <<(ScreenW - minimal_size[1]) \div 2, (ScreenH - minimal_size[2]) \div 2>>

\* pos = data.get("minimal_pos") or [(sw-mw)//2, (sh-mh)//2]
OpenPos ==
  IF minimal_pos # NoPos THEN minimal_pos
  ELSE <<(ScreenW - minimal_size[1]) \div 2, (ScreenH - minimal_size[2]) \div 2>>

\* _draw_min_wallpaper(force) with the window reporting size sz:
\* w, h = max(1, winfo_width()), max(1, winfo_height()); unless forced, a
\* size equal to _last_min_wallpaper_size returns at once.  A canvas made in
\* the same step (bg="white", no item) is the one that is painted or left
_draw_min_wallpaper(force, sz) ==
  LET wh == <<Max(1, sz[1]), Max(1, sz[2])>>
  IN  IF minimal_bg' = "None" \/ ~pil
      THEN /\ drawn' = NoSize
           /\ min_bg_color' = IF minimal_bg = "None" THEN "white" ELSE min_bg_color
           /\ min_img' = IF minimal_bg = "None" THEN NoImage ELSE min_img
           /\ UNCHANGED <<last_min_wallpaper_size, wallpaper_color_cache, saved_color_cache,
                          last_call, wall_exc>>
      ELSE IF ~force /\ wh = last_min_wallpaper_size
      THEN /\ drawn' = NoSize
           /\ UNCHANGED <<last_min_wallpaper_size, minPaint>>
      ELSE /\ drawn' = wh
           /\ last_min_wallpaper_size' = wh
           /\ PaintMin(wh)

\* the body of _open_minimal past its guard; the Toplevel made a moment ago
\* reports 1x1 from winfo_width/height until Tk has laid it out, its size
\* after that
OpenPanel ==
  /\ minimal_win' = "win"
  /\ toplevels' = toplevels + 1
  /\ win_pos' = OpenPos
  /\ win_size' = minimal_size
  /\ minimal_bg' = "canvas"
  /\ minimal_info' = IF show_future THEN "label" ELSE minimal_info
  /\ minimal_label' = timer_label
  /\ minimal_font' = auto_font_minimal(minimal_size[2])
  /\ minimal_notes' = IF show_notes THEN "text" ELSE minimal_notes
  /\ notes_text' = IF show_notes THEN notes_memory ELSE notes_text
  /\ UNCHANGED <<minimal_pos, last_min_h, notes_memory, notes_save_path, notes_file,
                 notes_at_close>>
  /\ cfg_pending' = TRUE
  /\ cfg_seen' = <<0, 0>>
  /\ gesture' = ""
  /\ dialog' = <<>>
  /\ \E sz \in {<<1, 1>>, minimal_size} : _draw_min_wallpaper(TRUE, sz)

\* the body of _close_minimal: _save_minimal_pos and destroy when there is a
\* window, then every reference is unset
ClosePanel ==
  /\ cfg_pending' = FALSE
  /\ drawn' = NoSize
  /\ gesture' = ""
  /\ dialog' = <<>>
  /\ notes_text' = <<>>
  /\ notes_at_close' = IF minimal_notes # "None" THEN notes_text ELSE notes_at_close
  /\ UNCHANGED <<last_min_h, last_min_wallpaper_size, cfg_seen, notes_memory,
                 notes_save_path, notes_file>>
  /\ min_bg_color' = ""
  /\ min_img' = NoImage
  /\ UNCHANGED <<wallpaper_color_cache, saved_color_cache, last_call, wall_exc>>
  /\ IF minimal_win # "None"
     THEN /\ minimal_pos' = win_pos
          /\ toplevels' = toplevels - 1
     ELSE UNCHANGED <<minimal_pos, toplevels>>
  /\ minimal_win' = "None"
  /\ minimal_label' = NoText
  /\ minimal_info' = "None"
  /\ minimal_bg' = "None"
  /\ minimal_notes' = "None"
  /\ minimal_font' = 0
  /\ win_pos' = NoPos
  /\ win_size' = <<0, 0>>

\* _open_minimal without its "if self.minimal_win is not None: return"
_open_minimal_unguarded ==
  /\ OpenPanel
  /\ rejected' = ""
  /\ UNCHANGED <<fitVars, wallEnv, timerVars, threadVars, storeVars, dragVars, minimal_size, show_future,
                 show_notes, histVars>>

_open_minimal ==
  /\ IF minimal_win # "None"
     THEN /\ rejected' = "_open_minimal"
          /\ UNCHANGED <<panelVars, minimal_pos, paintVars, notesVars, minPaint>>
     ELSE /\ OpenPanel
          /\ rejected' = ""
  /\ UNCHANGED <<fitVars, wallEnv, timerVars, threadVars, storeVars, dragVars, minimal_size, show_future,
                 show_notes, histVars>>

_close_minimal ==
  /\ ClosePanel
  /\ rejected' = IF minimal_win # "None" THEN "" ELSE "_close_minimal"
  /\ b1_down' = FALSE
  /\ UNCHANGED <<fitVars, wallEnv, timerVars, threadVars, storeVars, drag_off, ptr, minimal_size, show_future,
                 show_notes, histVars>>

_toggle_minimal ==
  /\ IF minimal_win = "None"
     THEN OpenPanel /\ b1_down' = b1_down
     ELSE ClosePanel /\ b1_down' = FALSE
  /\ rejected' = ""
  /\ UNCHANGED <<fitVars, wallEnv, timerVars, threadVars, storeVars, drag_off, ptr, minimal_size, show_future,
                 show_notes, histVars>>

\* _save_minimal_pos: data["minimal_pos"] = [winfo_x, winfo_y], then the font
SaveMinimalPos ==
  IF minimal_win = "None"
  THEN UNCHANGED <<minimal_pos, minimal_font>>
  ELSE /\ minimal_pos' = win_pos
       /\ minimal_font' = auto_font_minimal_by_wh(win_size[1], win_size[2], TextLen(minimal_label))

\* _recalc_font_after_move
RecalcFontAfterMove ==
  /\ minimal_font' = IF minimal_win = "None" \/ minimal_label = NoText THEN minimal_font
                     ELSE auto_font_minimal_by_wh(Max(1, win_size[1]), Max(1, win_size[2]),
                                                  TextLen(minimal_label))
  /\ UNCHANGED minimal_pos

\* <Double-1> on the panel
DoubleClick ==
  /\ minimal_win # "None"
  /\ Bound("<Double-1>") = "_close_minimal"
  /\ ClosePanel
  /\ b1_down' = FALSE
  /\ rejected' = ""
  /\ UNCHANGED <<fitVars, wallEnv, timerVars, threadVars, storeVars, drag_off, ptr, minimal_size, show_future,
                 show_notes, histVars>>

\* a panel step that composes nothing and shows no dialog
Quiet == drawn' = NoSize /\ dialog' = <<>>

\* <Button-1> on the panel at offset off: _start_drag records (e.x, e.y)
Press(off) ==
  /\ minimal_win # "None"
  /\ ~b1_down
  /\ b1_down' = TRUE
  /\ ptr' = <<win_pos[1] + off[1], win_pos[2] + off[2]>>
  /\ drag_off' = IF Bound("<Button-1>") = "_start_drag" THEN off ELSE drag_off
  /\ rejected' = ""
  /\ Quiet /\ gesture' = "press"
  /\ UNCHANGED <<last_min_h, last_min_wallpaper_size, cfg_pending, cfg_seen, notes_text,
                 notes_memory, notes_save_path, notes_file, notes_at_close, fitVars, wallVars>>
  /\ UNCHANGED <<timerVars, threadVars, storeVars, panelVars, geomVars, histVars>>

\* _on_drag_smooth moving the window by the event's coordinates, the offset
\* of the press left out
_on_drag_smooth_no_offset(ex, ey) ==
  <<win_pos[1] + ex, win_pos[2] + ey>>

\* _on_drag_smooth(e): nx = winfo_x() + (e.x - _drag_off[0]), ny likewise,
\* given to geometry("+nx+ny")
_on_drag_smooth(ex, ey) ==
  <<win_pos[1] + (ex - drag_off[1]), win_pos[2] + (ey - drag_off[2])>>

\* <B1-Motion> with the pointer now at screen point p: the event carries the
\* pointer's coordinates in the window
Motion(p) ==
  /\ minimal_win # "None"
  /\ b1_down
  /\ p # ptr
  /\ ptr' = p
  /\ LET ex == p[1] - win_pos[1]
         ey == p[2] - win_pos[2]
     IN  win_pos' = IF Bound("<B1-Motion>") = "_on_drag_smooth"
                    THEN _on_drag_smooth(ex, ey)
                    ELSE win_pos
  /\ rejected' = ""
  /\ Quiet /\ gesture' = "move"
  /\ cfg_pending' = TRUE
  /\ UNCHANGED <<last_min_h, last_min_wallpaper_size, cfg_seen, notes_text, notes_memory,
                 notes_save_path, notes_file, notes_at_close, fitVars, wallVars>>
  /\ UNCHANGED <<timerVars, threadVars, storeVars, minimal_win, minimal_label, minimal_info,
                 minimal_bg, minimal_notes, minimal_font, toplevels, win_size, drag_off,
                 b1_down, geomVars, histVars>>

\* <ButtonRelease-1> on the panel: Tk runs the handler bound to the event
Release ==
  /\ minimal_win # "None"
  /\ b1_down
  /\ b1_down' = FALSE
  /\ IF Bound("<ButtonRelease-1>") = "_save_minimal_pos"
     THEN SaveMinimalPos
     ELSE RecalcFontAfterMove
  /\ rejected' = ""
  /\ Quiet /\ gesture' = "release"
  /\ UNCHANGED <<last_min_h, last_min_wallpaper_size, cfg_pending, cfg_seen, notes_text,
                 notes_memory, notes_save_path, notes_file, notes_at_close, fitVars, wallVars>>
  /\ UNCHANGED <<timerVars, threadVars, storeVars, minimal_win, minimal_label, minimal_info,
                 minimal_bg, minimal_notes, toplevels, win_pos, win_size, drag_off, ptr,
                 minimal_size, show_future, show_notes, histVars>>

\* step sizes of a <Control-MouseWheel> notch: e.delta > 0 grows
WheelDeltas == {120, 0 - 120}

\* sizes the corner grip (ttk.Sizegrip) can leave the window at
GripSizes == {<<300, 200>>, <<400, 160>>, <<400, 200>>}

\* _ctrl_wheel_resize_min without the two max(...) floors
_ctrl_wheel_resize_min_no_floor(delta) ==
  LET step == IF delta > 0 THEN 20 ELSE 0 - 20
      half == IF delta > 0 THEN 10 ELSE 0 - 10
      mw == minimal_size[1] + step
      mh == minimal_size[2] + half
  IN  /\ minimal_size' = <<mw, mh>>
      /\ win_size' = <<mw, mh>>

\* _ctrl_wheel_resize_min(e): step = 20 if e.delta > 0 else -20; the new size
\* is computed from data["minimal_size"], stored, and given to geometry()
_ctrl_wheel_resize_min(delta) ==
  LET step == IF delta > 0 THEN 20 ELSE 0 - 20
      half == IF delta > 0 THEN 10 ELSE 0 - 10
      mw == Max(280, minimal_size[1] + step)
      mh == Max(160, minimal_size[2] + half)
  IN  /\ minimal_size' = <<mw, mh>>
      /\ win_size' = <<mw, mh>>

\* <Control-MouseWheel> on the panel
Wheel(delta) ==
  /\ minimal_win # "None"
  /\ Bound("<Control-MouseWheel>") = "_ctrl_wheel_resize_min"
  /\ delta > 0 => minimal_size[1] < StoredW + 20 * MaxWheelUp
  /\ _ctrl_wheel_resize_min(delta)
  /\ cfg_pending' = TRUE
  /\ gesture' = IF delta > 0 THEN "wheel_up" ELSE "wheel_down"
  /\ Quiet
  /\ rejected' = ""
  /\ UNCHANGED <<timerVars, threadVars, storeVars, minimal_win, minimal_label, minimal_info,
                 minimal_bg, minimal_notes, minimal_font, toplevels, win_pos, dragVars,
                 minimal_pos, show_future, show_notes, histVars, last_min_h,
                 last_min_wallpaper_size, cfg_seen, notes_text, notes_memory,
                 notes_save_path, notes_file, notes_at_close, fitVars, wallVars>>

\* a drag of the corner grip that leaves the window at size sz: Tk resizes
\* the window, no handler of the program runs but <Configure>
GripResize(sz) ==
  /\ minimal_win # "None"
  /\ sz # win_size
  /\ win_size' = sz
  /\ cfg_pending' = TRUE
  /\ gesture' = "grip"
  /\ Quiet
  /\ rejected' = ""
  /\ UNCHANGED <<timerVars, threadVars, storeVars, minimal_win, minimal_label, minimal_info,
                 minimal_bg, minimal_notes, minimal_font, toplevels, win_pos, dragVars,
                 geomVars, histVars, last_min_h, last_min_wallpaper_size, cfg_seen,
                 notes_text, notes_memory, notes_save_path, notes_file, notes_at_close, fitVars, wallVars>>

\* _on_minimal_configure that refits and redraws on every event
_on_minimal_configure_unthrottled(ew, eh) ==
  /\ last_min_h' = eh
  /\ minimal_font' = auto_font_minimal_by_wh(ew, eh, TextLen(minimal_label))
  /\ UNCHANGED minimal_bg
  /\ _draw_min_wallpaper(TRUE, win_size)

\* _on_minimal_configure(e): nothing when e.height == self._last_min_h;
\* else the height is kept, the font refitted and the wallpaper redrawn
_on_minimal_configure(ew, eh) ==
  IF eh = last_min_h
  THEN /\ drawn' = NoSize
       /\ UNCHANGED <<last_min_h, minimal_font, minimal_bg, last_min_wallpaper_size, minPaint>>
  ELSE /\ last_min_h' = eh
       /\ UNCHANGED minimal_bg
       /\ IF minimal_label # NoText
          THEN /\ minimal_font' = auto_font_minimal_by_wh(ew, eh, TextLen(minimal_label))
               /\ _draw_min_wallpaper(FALSE, win_size)
          ELSE /\ drawn' = NoSize
               /\ UNCHANGED <<minimal_font, last_min_wallpaper_size, minPaint>>

\* the Tk event loop delivers the <Configure> event of the panel window,
\* which carries the size the window has by then
Configure ==
  /\ minimal_win # "None"
  /\ cfg_pending
  /\ cfg_pending' = FALSE
  /\ cfg_seen' = win_size
  /\ IF Bound("<Configure>") = "_on_minimal_configure"
     THEN _on_minimal_configure(win_size[1], win_size[2])
     ELSE /\ drawn' = NoSize
          /\ UNCHANGED <<last_min_h, minimal_font, minimal_bg, last_min_wallpaper_size,
                         minPaint>>
  /\ gesture' = ""
  /\ dialog' = <<>>
  /\ rejected' = ""
  /\ UNCHANGED <<timerVars, threadVars, storeVars, minimal_win, minimal_label, minimal_info,
                 minimal_notes, toplevels, win_pos, win_size, dragVars, geomVars, histVars,
                 notes_text, notes_memory, notes_save_path, notes_file, notes_at_close, fitVars, wallEnv>>

\* the user edits the notes region of the open panel, leaving the text t
TypeNotes(t) ==
  /\ minimal_notes # "None"
  /\ t # notes_text
  /\ notes_text' = t
  /\ Quiet /\ gesture' = ""
  /\ rejected' = ""
  /\ UNCHANGED <<timerVars, threadVars, storeVars, panelVars, dragVars, geomVars, histVars,
                 last_min_h, last_min_wallpaper_size, cfg_pending, cfg_seen, notes_memory,
                 notes_save_path, notes_file, notes_at_close, fitVars, wallVars>>

\* _choose_notes_path with a file chosen in the dialog
_choose_notes_path ==
  /\ ~notes_save_path
  /\ notes_save_path' = TRUE
  /\ rejected' = ""
  /\ UNCHANGED <<timerVars, threadVars, storeVars, panelVars, dragVars, geomVars, histVars,
                 paintVars, notes_text, notes_memory, notes_file, dialog, notes_at_close,
                 fitVars, wallVars>>

\* _save_notes_to_file without self.minimal_notes.delete("1.0", tk.END)
_save_notes_to_file_keeps_region(ok) ==
  /\ IF minimal_notes = "None"
     THEN /\ rejected' = "_save_notes_to_file"
          /\ UNCHANGED <<notes_text, notes_memory, notes_file, dialog>>
     ELSE /\ rejected' = ""
          /\ notes_memory' = Strip(notes_text)
          /\ UNCHANGED notes_text
          /\ IF notes_save_path
             THEN IF ok
                  THEN /\ notes_file' = Append(notes_file, Strip(notes_text))
                       /\ dialog' = <<>>
                  ELSE /\ dialog' = <<"error">>
                       /\ UNCHANGED notes_file
             ELSE /\ dialog' = <<"warning">>
                  /\ UNCHANGED notes_file
  /\ drawn' = NoSize
  /\ gesture' = ""
  /\ UNCHANGED <<timerVars, threadVars, storeVars, panelVars, dragVars, geomVars, histVars,
                 last_min_h, last_min_wallpaper_size, cfg_pending, cfg_seen,
                 notes_save_path, notes_at_close, fitVars, wallVars>>

\* _save_notes_to_file that clears the edit region whether or not a path is set
_save_notes_to_file_always_clears(ok) ==
  /\ IF minimal_notes = "None"
     THEN /\ rejected' = "_save_notes_to_file"
          /\ UNCHANGED <<notes_text, notes_memory, notes_file, dialog>>
     ELSE /\ rejected' = ""
          /\ notes_memory' = Strip(notes_text)
          /\ notes_text' = <<>>
          /\ IF notes_save_path
             THEN IF ok
                  THEN /\ notes_file' = Append(notes_file, Strip(notes_text))
                       /\ dialog' = <<>>
                  ELSE /\ dialog' = <<"error">>
                       /\ UNCHANGED notes_file
             ELSE /\ dialog' = <<"warning">>
                  /\ UNCHANGED notes_file
  /\ drawn' = NoSize
  /\ gesture' = ""
  /\ UNCHANGED <<timerVars, threadVars, storeVars, panelVars, dragVars, geomVars, histVars,
                 last_min_h, last_min_wallpaper_size, cfg_pending, cfg_seen,
                 notes_save_path, notes_at_close, fitVars, wallVars>>

\* _save_notes_to_file; ok says whether open(p, "a") and the write succeed.
\* The block written is "[timestamp]\n" + txt + "\n\n", kept here as txt
_save_notes_to_file(ok) ==
  /\ IF minimal_notes = "None"
     THEN /\ rejected' = "_save_notes_to_file"
          /\ UNCHANGED <<notes_text, notes_memory, notes_file, dialog>>
     ELSE /\ rejected' = ""
          /\ notes_memory' = Strip(notes_text)
          /\ IF notes_save_path
             THEN IF ok
                  THEN /\ notes_file' = Append(notes_file, Strip(notes_text))
                       /\ notes_text' = <<>>
                       /\ dialog' = <<>>
                  ELSE /\ dialog' = <<"error">>
                       /\ UNCHANGED <<notes_file, notes_text>>
             ELSE /\ dialog' = <<"warning">>
                  /\ UNCHANGED <<notes_file, notes_text>>
  /\ drawn' = NoSize
  /\ gesture' = ""
  /\ UNCHANGED <<timerVars, threadVars, storeVars, panelVars, dragVars, geomVars, histVars,
                 last_min_h, last_min_wallpaper_size, cfg_pending, cfg_seen,
                 notes_save_path, notes_at_close, fitVars, wallVars>>

\* _save_minimal_toggles, from the two check buttons of the settings page
_save_minimal_toggles(f, n) ==
  /\ <<f, n>> # <<show_future, show_notes>>
  /\ show_future' = f
  /\ show_notes' = n
  /\ rejected' = ""
  /\ UNCHANGED <<extVars, timerVars, threadVars, storeVars, panelVars, dragVars, minimal_pos,
                 minimal_size, histVars>>

\* ----------------------------------------------------------- specifications
\* the Tk event loop's callbacks, the tick threads and the clock
ThreadNext ==
  \/ UIRun
  \/ \E i \in 1..Len(workers) : W_Tick(i)
  \/ \E i \in 1..Len(workers) : W_Exit(i)
  \/ Tick

\* the model follows MaxSessions sessions: no further start from idle
Startable == timer_running \/ Len(workers) < MaxSessions

\* the timer engine with its controls; start_timer is also invoked while a
\* session runs (its guard returns), Pause and Stop while their buttons are
\* enabled
TimerNext ==
  \/ Startable /\ start_timer
  \/ timer_running /\ pause_timer
  \/ timer_running /\ stop_timer
  \/ \E d \in Durations : SetDuration(d)
  \/ \E m \in Modes : SetMode(m)
  \/ ThreadNext

Spec == Init /\ [][TimerNext]_vars

\* sessions started one after the other, the tick thread of an earlier one
\* still alive: the model follows MaxWorkers tick threads
CancelNext ==
  \/ ~timer_running /\ Len(workers) < MaxWorkers /\ start_timer
  \/ timer_running /\ pause_timer
  \/ timer_running /\ stop_timer
  \/ \E m \in Modes : SetMode(m)
  \/ ThreadNext

SpecCancel == Init /\ [][CancelNext]_vars

\* the timer engine with what _finish_session reads and starts; stop_timer
\* is also invoked while idle (its guard returns)
StoreNext ==
  \/ ~timer_running /\ Startable /\ start_timer
  \/ timer_running /\ pause_timer
  \/ stop_timer
  \/ \E m \in Modes : SetMode(m)
  \/ _toggle_beep
  \/ \E n \in TaskNames : _del_task(n)
  \/ \E n \in TaskNames : SelectTask(n)
  \/ AlarmWorker
  \/ ThreadNext

SpecStore == Init /\ [][StoreNext]_vars

\* the timer engine with the panel as a second display sink
SinkNext ==
  \/ ~timer_running /\ Startable /\ start_timer
  \/ pause_timer
  \/ timer_running /\ stop_timer
  \/ \E d \in Durations : SetDuration(d)
  \/ \E m \in Modes : SetMode(m)
  \/ _toggle_minimal
  \/ ThreadNext

SpecSinks == Init /\ [][SinkNext]_vars

\* the floating panel
PanelNext ==
  \/ _toggle_minimal
  \/ _open_minimal
  \/ _close_minimal
  \/ DoubleClick
  \/ \E off \in GrabOffsets : Press(off)
  \/ \E p \in ScreenPoints : Motion(p)
  \/ Release
  \/ \E f, n \in BOOLEAN : _save_minimal_toggles(f, n)
  \/ \E d \in Durations : SetDuration(d)

SpecPanel == Init /\ [][PanelNext]_vars

\* the floating panel's geometry: resize by wheel and by grip, drag, and the
\* <Configure> events that follow
GeomNext ==
  \/ _toggle_minimal
  \/ \E d \in WheelDeltas : Wheel(d)
  \/ \E sz \in GripSizes : GripResize(sz)
  \/ Configure
  \/ \E off \in GeomGrabs : Press(off)
  \/ \E p \in GeomPoints : Motion(p)
  \/ Release

SpecGeom == GeomInit /\ [][GeomNext]_vars

\* the notes region of the panel; the two save buttons exist while the
\* panel is open with its notes region
NotesNext ==
  \/ _toggle_minimal
  \/ \E t \in Texts : TypeNotes(t)
  \/ _choose_notes_path
  \/ \E ok \in BOOLEAN :
       /\ minimal_notes # "None"
       /\ Len(notes_file) < MaxBlocks
       /\ _save_notes_to_file(ok)
  \/ \E f, n \in BOOLEAN : _save_minimal_toggles(f, n)

SpecNotes == Init /\ [][NotesNext]_vars

\* the panel opened, dragged, shrunk and closed over and over: where and how
\* large it opens
OpenPoints == {<<10, 10>>, <<300, 200>>}

OpenNext ==
  \/ _toggle_minimal
  \/ _open_minimal
  \/ Wheel(0 - 120)
  \/ Press(<<10, 10>>)
  \/ \E p \in OpenPoints : Motion(p)
  \/ Release

SpecOpen == Init /\ [][OpenNext]_vars

\* the wallpapers of the main stage and of the panel: image files that come
\* and go, the settings that name them, the draws and the colour sampler
SamplerInit ==
  /\ InitCore
  /\ files \in [Paths -> FileStates]
  /\ pil \in BOOLEAN
  /\ minimal_size = <<DefaultW, DefaultH>>
  /\ fit_w = DefaultW /\ fit_h = DefaultH /\ fit_n = 8
  /\ cmp_w = DefaultW /\ cmp_h = DefaultH /\ cmp_pct = 92 /\ cmp_src = <<1, 1>>

WallInit ==
  /\ InitCore
  /\ files = [p \in Paths |-> "missing"]
  /\ pil \in BOOLEAN
  /\ minimal_size = <<DefaultW, DefaultH>>
  /\ fit_w = DefaultW /\ fit_h = DefaultH /\ fit_n = 8
  /\ cmp_w = DefaultW /\ cmp_h = DefaultH /\ cmp_pct = 92 /\ cmp_src = <<1, 1>>

\* calls of the colour sampler, with the files changing between them
SamplerNext ==
  \/ \E p \in Paths, st \in FileStates : FileChange(p, st)
  \/ \E p \in Paths \cup {"None"}, ok \in BOOLEAN : Sample(p, ok)

SpecSampler == SamplerInit /\ [][SamplerNext]_vars

\* the files of the wallpaper runs: p1 is an image that is replaced by
\* another or removed, p2 a file PIL cannot decode
WallFiles(p) == IF p = "p1" THEN {"missing"} \cup Colors ELSE {"missing", "bad"}

WallNext ==
  \/ \E p \in Paths : \E st \in WallFiles(p) : FileChange(p, st)
  \/ ApplyMainCall
  \/ \E p \in Paths : _choose_wallpaper(TRUE, "main", p)
  \/ _choose_wallpaper(FALSE, "main", "None")
  \/ \E p \in Paths : _choose_wallpaper(TRUE, "min", p)
  \/ _toggle_minimal
  \/ Configure

SpecWall == WallInit /\ [][WallNext]_vars

\* <Configure> events of the main window's layer and the throttled repaints
\* they queue, with the image files and the main wallpaper setting changing;
\* a callback queued with after() is run by the event loop in the end
RepaintNext ==
  \/ _on_layer_configure
  \/ RepaintRun
  \/ \E p \in Paths : \E st \in WallFiles(p) : FileChange(p, st)
  \/ \E p \in Paths : _choose_wallpaper(TRUE, "main", p)

SpecRepaint == WallInit /\ [][RepaintNext]_vars /\ WF_vars(RepaintRun)

\* the wallpaper settings of the floating panel ("仅时间壁纸" on the
\* settings page), applied with the panel open or closed
SettingsNext ==
  \/ \E p \in Paths : \E st \in WallFiles(p) : FileChange(p, st)
  \/ \E v \in FitPcts : _apply_fit_pct("min", v)
  \/ \E a \in Aligns : _apply_align_and_fit("min", a)
  \/ \E p \in Paths : _choose_wallpaper(TRUE, "min", p)
  \/ _toggle_minimal
  \/ Configure

SpecSettings == WallInit /\ [][SettingsNext]_vars

\* the scaling step of a draw for a viewport cmp_w x cmp_h, a stored fit
\* percent cmp_pct and a source image of size cmp_src
CmpWidths == {1, 280, 560, 1140}
CmpHeights == {1, 160, 260, 640}
CmpPcts == {0 - 5, 0, 5, 10, 50, 92, 100, 150}
CmpSources == {<<400, 300>>, <<300, 500>>, <<64, 64>>, <<1000, 3>>, <<3, 22>>}

CmpInit ==
  /\ InitCore
  /\ files = [p \in Paths |-> "missing"]
  /\ pil = TRUE
  /\ minimal_size = <<DefaultW, DefaultH>>
  /\ fit_w = DefaultW /\ fit_h = DefaultH /\ fit_n = 8
  /\ cmp_w \in CmpWidths
  /\ cmp_h \in CmpHeights
  /\ cmp_pct \in CmpPcts
  /\ cmp_src \in CmpSources

ScaleCall ==
  /\ cmp_side = NoMark
  /\ cmp_side' = ShortSide(cmp_w, cmp_h, cmp_pct)
  /\ cmp_img' = contain(cmp_src, cmp_side')
  /\ UNCHANGED <<cmp_w, cmp_h, cmp_pct, cmp_src, files, pil, wallSet, stage_bg, stage_img,
                 throttle, repaint_due, raised, minPaint, paintVars, notesVars, fitVars, timerVars, threadVars, storeVars,
                 panelVars, dragVars, geomVars, histVars, rejected>>

CmpNext == ScaleCall

SpecCompose == CmpInit /\ [][CmpNext]_vars

\* a call of _auto_font_minimal_by_wh(fit_w, fit_h, text) with a text of
\* fit_n characters
FitInit ==
  /\ InitCore
  /\ NoWall
  /\ minimal_size = <<DefaultW, DefaultH>>
  /\ fit_w \in FitWidths
  /\ fit_h \in FitHeights
  /\ fit_n \in FitLens

FitCall ==
  /\ fit_size = 0
  /\ fit_size' = auto_font_minimal_by_wh(fit_w, fit_h, fit_n)
  /\ UNCHANGED <<fit_w, fit_h, fit_n, paintVars, notesVars, wallVars, timerVars, threadVars, storeVars,
                 panelVars, dragVars, geomVars, histVars, rejected>>

FitNext == FitCall

SpecFit == FitInit /\ [][FitNext]_vars

\* ------------------------------------------------------------ properties
Last(q) == q[Len(q)]

\* every variable of the program, the history variables left out
progVars == <<timerVars, threadVars, storeVars, panelVars, dragVars, geomVars,
              last_min_h, last_min_wallpaper_size, cfg_pending,
              notes_text, notes_memory, notes_save_path, notes_file>>

\* the step just taken is a run of _finish_session
FinishStep == Len(fin_log') = Len(fin_log) + 1

\* the session under way (or ended last) began as a countdown and has seen
\* neither Pause nor Stop
C1_Clean == sess.kind = "countdown" /\ ~sess.paused /\ ~stop_seen

C1_Inv ==
  (C1_Clean /\ workers # <<>>) =>
    LET i == Len(workers)
        w == workers[i]
        N == sess.target
        fin == [cb |-> "_finish_session", arg |-> N, w |-> i]
        queued == {k \in 1..Len(pending) : pending[k].cb = "_finish_session"}
    IN  /\ N >= 1
        /\ Len(fin_log) <= 1
        /\ \A k \in 1..Len(fin_log) : fin_log[k] = [src |-> "run", w |-> i, used |-> N]
        /\ timer_running <=> (fin_log = <<>>)
        /\ \A k \in queued : pending[k] = fin
        /\ w.pc # "done" => (w.kind = "countdown" /\ w.val \in 0..N /\ queued = {})
        /\ w.pc = "done" => Cardinality(queued) + Len(fin_log) = 1

\* the effects of the finish of such a session on the flags, the alarm and
\* the display
C1_Effects ==
  /\ ~timer_running' /\ ~timer_paused'
  /\ alarm_thr' = alarm_thr + (IF beep THEN 1 ELSE 0)
  /\ timer_label' = <<0, 0, 0>>

\* one session record of N seconds, and N seconds more on one task
C1_Recorded ==
  /\ Len(sessions') = Len(sessions) + 1
  /\ Last(sessions').seconds = sess.target
  /\ Len(tasks') = Len(tasks)
  /\ \E k \in 1..Len(tasks) :
       /\ tasks'[k].total = tasks[k].total + sess.target
       /\ Last(sessions').task = tasks[k].name
       /\ \A j \in 1..Len(tasks) : j # k => tasks'[j] = tasks[j]

C1_Step ==
  (C1_Clean /\ FinishStep /\ ~stop_seen') =>
    /\ C1_Effects
    /\ IF tasks # <<>> THEN C1_Recorded ELSE UNCHANGED <<tasks, sessions>>

\* C1: a countdown of N >= 1 seconds that sees neither Pause nor Stop ticks
\* N times and no further, leaves Running only through one run of
\* _finish_session, handed over by its own thread with used_seconds = N;
\* that run clears both flags, starts the alarm when beep is enabled, shows
\* 00:00:00 and, when the task list is not empty, appends one session record
\* of N seconds and adds N to one task's total (with no task left it records
\* nothing).
C1_CountdownFinishesOnce == []C1_Inv /\ [][C1_Step]_vars

\* C1 as stated: the finish of such a session always records the session
C1_AlwaysRecorded ==
  [][(C1_Clean /\ FinishStep /\ ~stop_seen') => (C1_Effects /\ C1_Recorded)]_vars

C1_Witness ==
  /\ C1_Clean
  /\ ~timer_running
  /\ sess.target = MaxTarget
  /\ fin_log = <<[src |-> "run", w |-> Len(workers), used |-> MaxTarget]>>
  /\ Len(sessions) = 1
  /\ sessions[1].seconds = MaxTarget
  /\ timer_label = <<0, 0, 0>>

\* the step just taken is stop_timer on a session under way
StopStep == stop_timer /\ timer_running

C2_Ends == ~timer_running' /\ ~timer_paused' /\ FinishStep /\ Last(fin_log').src = "stop"

C2_Step ==
  /\ StopStep =>
       /\ C2_Ends
       /\ alarm_thr' = alarm_thr + (IF beep THEN 1 ELSE 0)
       /\ LET used == Last(fin_log').used
          IN  IF used > 0 /\ tasks # <<>>
              THEN /\ Len(sessions') = Len(sessions) + 1
                   /\ Last(sessions').seconds = used
              ELSE UNCHANGED <<tasks, sessions>>
  /\ (stop_timer /\ ~timer_running) => UNCHANGED progVars

\* C2: stop_timer on a Running or Paused session clears both flags and runs
\* _finish_session, which starts the alarm when beep is enabled and appends
\* a session record when the elapsed time is above zero and a task exists;
\* stop_timer while Idle changes nothing.
C2_StopEndsSession == [][C2_Step]_vars

\* C2 as stated: every accepted Stop starts the alarm and emits a record
C2_StopAlwaysAlarmsAndRecords ==
  [][StopStep => (C2_Ends /\ alarm_thr' = alarm_thr + 1
                    /\ Len(sessions') = Len(sessions) + 1)]_vars

C2_Witness ==
  /\ fin_log # <<>>
  /\ Last(fin_log).src = "stop"
  /\ Last(fin_log).used > 0
  /\ sess.paused
  /\ ~timer_running /\ ~timer_paused
  /\ Len(sessions) = 1
  /\ alarm_thr = 1

C3_Step ==
  /\ (start_timer /\ timer_running) => (UNCHANGED progVars /\ rejected' = "start_timer")
  /\ Len(workers') > Len(workers) => ~timer_running

\* C3: start_timer while a session is Running or Paused changes no variable
\* of the program (the paused flag keeps its value, no thread is started);
\* a tick thread is started only from Idle.
C3_StartOnlyFromIdle == [][C3_Step]_vars

C3_Witness == rejected = "start_timer" /\ timer_running /\ timer_paused /\ Len(workers) = 1

\* thread i takes a tick in the step just taken
TickStep(i) == workers[i].pc = "ready" /\ workers'[i].pc = "sleep"

\* C4: the first value a thread hands over after Resume differs by at most
\* one second from its value when Pause was pressed.
C4_ResumeWithinOneSecond ==
  [][\A i \in 1..Len(workers) :
       (TickStep(i) /\ pause_mark[i] # NoMark) =>
          Abs(workers'[i].val - pause_mark[i]) <= 1]_vars

\* C5: the elapsed time Stop hands to _finish_session for a countdown
\* session, taken with no callback of the thread waiting, is the number of
\* seconds the thread has ticked.
C5_StopRecordsTicked ==
  [][(StopStep /\ sess.kind = "countdown" /\ pending = <<>> /\ Last(workers).pc # "done")
       => Last(fin_log').used = sess.target - Last(workers).val]_vars

\* C6: in a countdown session the remaining time of the thread is never
\* below zero, and the elapsed time handed to _finish_session lies between
\* zero and the target the session started with.
C6_ElapsedWithinTarget ==
  sess.kind = "countdown" =>
    /\ \A i \in 1..Len(workers) : workers[i].val >= 0
    /\ \A k \in 1..Len(fin_log) : fin_log[k].used \in 0..sess.target

\* C7: no worker thread calls into Tk itself.
C7_WorkersOffUI == worker_ui = {}

\* C8: whenever the panel is open its label shows the text of the main
\* label, from the moment it opens and after every tick; a closed panel has
\* no label.
C8_SinksAgree ==
  /\ minimal_win # "None" => minimal_label = timer_label
  /\ minimal_win = "None" => minimal_label = NoText

C8_Witness ==
  /\ minimal_win # "None"
  /\ timer_running
  /\ workers # <<>>
  /\ Last(workers).pc = "sleep"
  /\ pending = <<>>
  /\ timer_label = FormatHMS(Last(workers).val)
  /\ timer_label # <<0, 0, 0>>
  /\ minimal_label = timer_label

C9_Inv ==
  /\ toplevels \in {0, 1}
  /\ toplevels = 1 <=> minimal_win # "None"
  /\ minimal_win = "None" =>
       /\ minimal_label = NoText
       /\ minimal_info = "None"
       /\ minimal_bg = "None"
       /\ minimal_notes = "None"

C9_Step ==
  /\ (_open_minimal /\ minimal_win # "None") => UNCHANGED progVars
  /\ (_open_minimal /\ minimal_win = "None") => minimal_win' # "None"
  /\ (_close_minimal /\ minimal_win = "None") => UNCHANGED progVars
  /\ _close_minimal => minimal_win' = "None"
  /\ _toggle_minimal => ((minimal_win = "None") # (minimal_win' = "None"))
  /\ DoubleClick => minimal_win' = "None"

\* C9: the panel is Closed or Open with at most one window; open on an open
\* panel and close on a closed panel change nothing, toggle flips the state,
\* a double click closes, and a closed panel has every reference unset.
C9_PanelLifecycle == []C9_Inv /\ [][C9_Step]_vars

C9_Witness == rejected = "_open_minimal" /\ minimal_win # "None" /\ toplevels = 1

\* C10: when button 1 is released on the open panel the stored position
\* data["minimal_pos"] is the position of the panel.
C10_ReleasePersistsPosition ==
  [][(minimal_win # "None" /\ b1_down /\ ~b1_down' /\ minimal_win' # "None")
       => minimal_pos' = win_pos']_vars

\* the resize of the panel in the step just taken, by wheel or by grip
ResizeStep == minimal_win # "None" /\ gesture' \in {"wheel_up", "wheel_down", "grip"}

\* C11: when a resize of the open panel completes, by Ctrl+wheel or by the
\* corner grip, the stored data["minimal_size"] is the size of the panel.
C11_ResizePersistsSize == [][ResizeStep => minimal_size' = win_size']_vars

\* the wheel notch of the step just taken
WheelStep == minimal_win # "None" /\ gesture' \in {"wheel_up", "wheel_down"}

C12_Inv == minimal_size[1] >= 280 /\ minimal_size[2] >= 160

C12_Step ==
  WheelStep => (win_size' = minimal_size' /\ win_size'[1] >= 280 /\ win_size'[2] >= 160)

\* C12: through any sequence of Ctrl+wheel notches, growing or shrinking,
\* the size _ctrl_wheel_resize_min gives the panel and the stored
\* data["minimal_size"] keep width >= 280 and height >= 160.
C12_WheelKeepsMinimum == []C12_Inv /\ [][C12_Step]_vars

C12_Witness ==
  /\ gesture = "wheel_down"
  /\ minimal_size = <<280, 160>>
  /\ win_size = <<280, 160>>
  /\ cfg_seen = <<280, 160>>

\* a geometry event that leaves the size as it was: a <Configure> event
\* carrying the size of the one before it, a drag move, a drag release
PositionOnlyStep ==
  \/ Configure /\ win_size = cfg_seen
  \/ minimal_win # "None" /\ gesture' \in {"move", "release"}

\* C13: a position-only geometry event on the open panel composes no
\* wallpaper: _draw_min_wallpaper gets past neither guard and the last
\* composed size stays as it was.
C13_MoveNeverRedraws ==
  [][PositionOnlyStep =>
       (drawn' = NoSize /\ last_min_wallpaper_size' = last_min_wallpaper_size)]_vars

C13_Witness ==
  /\ minimal_win # "None"
  /\ b1_down
  /\ win_pos # OpenPos
  /\ ~cfg_pending
  /\ cfg_seen = win_size
  /\ drawn = NoSize

\* C14: when the <Configure> event of the open panel carries a size that
\* differs from the size composed last, in width, in height or in both, the
\* wallpaper is composed once at the new size.
C14_SizeChangeRedrawsOnce ==
  [][(Configure /\ win_size # last_min_wallpaper_size) =>
       (drawn' = win_size /\ last_min_wallpaper_size' = win_size)]_vars

\* C15: whenever the panel is open and the <Configure> event for its size
\* has been handled, the font size of the panel label is
\* _auto_font_minimal_by_wh(width, height, text of the label).
C15_FontFitsGeometry ==
  (minimal_win # "None" /\ ~cfg_pending) =>
     minimal_font = auto_font_minimal_by_wh(win_size[1], win_size[2], TextLen(minimal_label))

\* floor(min(h*0.45, (w*0.8)/len)): the largest k with
\* 100*k <= 45*h and 100*len*k <= 80*w
FloorOfBounds(w, h, len) ==
  CHOOSE k \in 0..(h + 1) : /\ 100 * k <= 45 * h /\ 100 * len * k <= 80 * w
                            /\ ~(100 * (k + 1) <= 45 * h /\ 100 * len * (k + 1) <= 80 * w)

Clamp(x, lo, hi) == IF x < lo THEN lo ELSE IF x > hi THEN hi ELSE x

\* C16: for w, h > 0 the result of _auto_font_minimal_by_wh(w, h, text) is
\* clamp(floor(min(h*0.45, (w*0.8)/n)), 24, 280), where n is the length of
\* the text and, for the empty text, the length 8 of "00:00:00"; the result
\* lies within 24..280.
C16_FitFormula ==
  fit_size # 0 =>
    /\ fit_size = Clamp(FloorOfBounds(fit_w, fit_h, IF fit_n = 0 THEN 8 ELSE fit_n), 24, 280)
    /\ fit_size \in 24..280

\* C16 as stated: the length used for every text is max(1, length(text))
C16_FitFormulaMaxOne ==
  fit_size # 0 => fit_size = Clamp(FloorOfBounds(fit_w, fit_h, Max(1, fit_n)), 24, 280)

C16_Witness == fit_size = 112 /\ fit_n = 0 /\ fit_w = 1120

\* C17: with w and the text fixed, doubling h never lowers the result of
\* _auto_font_minimal_by_wh; with w and h fixed, doubling the length of the
\* text never raises it.
C17_FitMonotone ==
  fit_size # 0 =>
    /\ auto_font_minimal_by_wh(fit_w, 2 * fit_h, fit_n) >= fit_size
    /\ auto_font_minimal_by_wh(fit_w, fit_h, 2 * fit_n) <= fit_size

C17_Witness ==
  /\ fit_size # 0
  /\ auto_font_minimal_by_wh(fit_w, 2 * fit_h, fit_n) > fit_size
  /\ auto_font_minimal_by_wh(fit_w, fit_h, 2 * fit_n) < fit_size

\* a save with a path configured and a write that succeeds
SaveWritten == _save_notes_to_file(TRUE) /\ minimal_notes # "None" /\ notes_save_path

\* C18: a save with a path configured and a write that succeeds appends the
\* text of the edit region, stripped of leading and trailing white space, to
\* the notes file, empties the edit region, and leaves
\* data["minimal_notes_memory"] holding that stripped text.
C18_SaveClearsRegionKeepsDraft ==
  [][SaveWritten =>
       /\ notes_text' = <<>>
       /\ notes_memory' = Strip(notes_text)
       /\ notes_file' = Append(notes_file, Strip(notes_text))]_vars

\* C18 as stated: the draft equals the text the edit region held
C18_DraftEqualsRegion ==
  [][SaveWritten => (notes_text' = <<>> /\ notes_memory' = notes_text)]_vars

C18_Witness ==
  /\ minimal_notes # "None"
  /\ notes_save_path
  /\ notes_text = <<>>
  /\ notes_memory = <<"a">>
  /\ notes_file = << <<"a">> >>

C20_NotesSurviveReopen ==
  [][(minimal_win = "None" /\ minimal_win' # "None" /\ show_notes
        /\ notes_at_close # NoClose) => notes_text' = notes_at_close]_vars

\* a save with a path configured and a write that fails
SaveFailed == _save_notes_to_file(FALSE) /\ minimal_notes # "None" /\ notes_save_path

SecondCall(p, ok) ==
  /\ Sample(p, ok)
  /\ pil /\ files[p] \in Colors
  /\ last_call.path = p /\ last_call.valid

\* C22: the second of two calls of avg_color_hex with the same valid image
\* path returns the colour the first returned and does not open the image.
C22_SecondCallSameColor ==
  [][\A p \in Paths, ok \in BOOLEAN :
       SecondCall(p, ok) =>
         /\ last_call'.color = last_call.color
         /\ ~last_call'.decoded]_vars

\* a call avg_color_hex(p, data=self.data) with no path, a path that does
\* not exist, a file PIL cannot decode, or without PIL
BadCall(p, ok) ==
  /\ Sample(p, ok)
  /\ ~pil \/ p = "None" \/ files[p] \in {"missing", "bad"}

\* C23: avg_color_hex called with no path, a path that does not exist or
\* without PIL returns "#f0f0f3"; called with a file that exists and cannot
\* be decoded it returns the colour cached for the path when there is one,
\* "#f0f0f3" when there is none; in each case the colour cache and the saved
\* cache stay as they were.
C23_BadPathFallsBack ==
  [][\A p \in Paths \cup {"None"}, ok \in BOOLEAN :
       BadCall(p, ok) =>
         /\ last_call'.color =
              IF Usable(p) /\ wallpaper_color_cache[p] # "absent"
              THEN wallpaper_color_cache[p] ELSE Fallback
         /\ wallpaper_color_cache' = wallpaper_color_cache
         /\ saved_color_cache' = saved_color_cache]_vars

\* C23 as stated: each of these calls returns "#f0f0f3"
C23_AlwaysFallback ==
  [][\A p \in Paths \cup {"None"}, ok \in BOOLEAN :
       BadCall(p, ok) => last_call'.color = Fallback]_vars

C23_Witness ==
  /\ pil
  /\ files["p2"] = "bad"
  /\ wallpaper_color_cache["p2"] = "absent"
  /\ last_call = [path |-> "p2", color |-> Fallback, decoded |-> TRUE, valid |-> FALSE]
  /\ wall_exc

\* C24: an entry of the colour cache, once written for a path, is neither
\* replaced by another colour nor removed, whatever is sampled or drawn.
C24_CacheWriteOnce ==
  [][\A p \in Paths :
       wallpaper_color_cache[p] # "absent" =>
         wallpaper_color_cache'[p] = wallpaper_color_cache[p]]_vars

C24_Witness ==
  /\ wallpaper_color_cache["p1"] = "#204060"
  /\ files["p1"] = "#a0a0a0"
  /\ last_call = [path |-> "p1", color |-> "#204060", decoded |-> FALSE, valid |-> TRUE]
  /\ stage_bg = "#204060"
  /\ stage_img # NoImage

\* the step just taken ran _draw_timer_wallpaper
StageDrawStep ==
  \/ _apply_main_wallpaper
  \/ \E single \in BOOLEAN, p \in Paths \cup {"None"} : _choose_wallpaper(single, "main", p)

\* the step just taken ran _draw_min_wallpaper past its size gate
PanelDrawStep == drawn' # NoSize /\ (_toggle_minimal \/ _open_minimal \/ Configure)

\* C25: a draw for which no wallpaper source resolves leaves the surface with
\* the background "#f0f0f3" and no image, on the main stage and on the panel.
C25_NoSourceNeutral ==
  [][/\ (StageDrawStep /\ _pick_main' = {"None"}) =>
          (stage_bg' = Fallback /\ stage_img' = NoImage)
     /\ (PanelDrawStep /\ _pick_min = {"None"}) =>
          (min_bg_color' = Fallback /\ min_img' = NoImage)]_vars

\* C26: a draw in which an except clause caught a failure (of the sampling,
\* of the store write, of the decoding or of the scaling) ends with a flat
\* background colour and no image on its surface, and leaves the timer, the
\* workers, the stored data and the panel's widgets as they were; a panel
\* draw leaves the panel open.
C26_FailedDrawDegrades ==
  [][/\ (StageDrawStep /\ wall_exc') =>
          /\ stage_bg' \in Colors \cup {Fallback}
          /\ stage_img' = NoImage
          /\ UNCHANGED <<timerVars, threadVars, storeVars, panelVars, dragVars, geomVars>>
     /\ (PanelDrawStep /\ wall_exc') =>
          /\ min_bg_color' \in Colors \cup {Fallback}
          /\ min_img' = NoImage
          /\ minimal_win' # "None"
          /\ UNCHANGED <<timerVars, threadVars, storeVars>>]_vars

\* C27: the side of the scaling box is min(w, h) * clamp(p, 10, 100) // 100
\* for every stored percent p; a scaled image has its longer edge within
\* that side and its shorter edge within half a pixel of the source's aspect
\* ratio, and lies the way the source lies; for p in 50..100 its longer edge
\* is at most min(w, h) * p / 100.
C27_ScaledWithinBox ==
  cmp_side # NoMark =>
    LET side == (Min(cmp_w, cmp_h) * Clamp(cmp_pct, 10, 100)) \div 100
        long == Max(cmp_img[1], cmp_img[2])
        short == Min(cmp_img[1], cmp_img[2])
        srcLong == Max(cmp_src[1], cmp_src[2])
        srcShort == Min(cmp_src[1], cmp_src[2])
    IN  /\ cmp_side = side
        /\ cmp_img # NoImage =>
              /\ long <= side
              /\ 2 * Abs(short * srcLong - srcShort * long) <= srcLong
              /\ cmp_src[1] > cmp_src[2] => cmp_img[1] >= cmp_img[2]
              /\ cmp_src[1] < cmp_src[2] => cmp_img[1] <= cmp_img[2]
              /\ (cmp_pct >= 50 /\ cmp_pct <= 100) =>
                    100 * long <= Min(cmp_w, cmp_h) * cmp_pct

C27_Witness ==
  /\ cmp_w = 560 /\ cmp_h = 260 /\ cmp_pct = 150
  /\ cmp_src = <<400, 300>>
  /\ cmp_side = 260
  /\ cmp_img = <<260, 195>>

\* C28: a panel that opens is placed at data["minimal_pos"] when a position
\* is stored, (0, 0) included, else centred on the screen, and has the size
\* data["minimal_size"].
C28_OpenRestoresGeometry ==
  [][(minimal_win = "None" /\ minimal_win' # "None") =>
       /\ win_pos' = IF minimal_pos # NoPos THEN minimal_pos
                     ELSE <<(ScreenW - minimal_size[1]) \div 2,
                            (ScreenH - minimal_size[2]) \div 2>>
       /\ win_size' = minimal_size]_vars

C28_Witness ==
  /\ minimal_win # "None"
  /\ minimal_pos = <<0, 0>>
  /\ win_pos = <<0, 0>>
  /\ minimal_size = <<540, 250>>
  /\ win_size = <<540, 250>>
  /\ drawn # NoSize
  /\ gesture = ""

\* the session worker i was started for has ended: Stop or a handed-over
\* _finish_session has cleared the running flag since, or a later session
\* has been started
SessionEnded(i) == i < Len(workers) \/ ~timer_running

\* worker i has been through its loop at least once
HasTicked(i) ==
  IF workers[i].kind = "countdown" THEN workers[i].val < workers[i].total
  ELSE workers[i].el > 0

\* C29: a tick worker that was in its loop when its session ended does not
\* tick again: at its next poll it finds the running flag cleared and leaves
\* its loop.
C29_EndedWorkerStops ==
  [][\A i \in 1..Len(workers) :
       (HasTicked(i) /\ W_Tick(i)) => ~SessionEnded(i)]_vars


\* the size a notch gives a panel of size sz: +20/+10 to grow, -20/-10 to
\* shrink, floored at 280x160
NotchFrom(sz, grow) ==
  <<Max(280, sz[1] + (IF grow THEN 20 ELSE 0 - 20)),
    Max(160, sz[2] + (IF grow THEN 10 ELSE 0 - 10))>>

\* C30: each Ctrl+wheel notch resizes the panel relative to the size it has
\* just before the notch, also when the resize before it was made with the
\* corner grip.
C30_NotchRelativeToPanel ==
  [][WheelStep => win_size' = NotchFrom(win_size, gesture' = "wheel_up")]_vars


\* the pointer-move event of a drag in the step just taken
MoveStep == \E p \in GeomPoints : Motion(p)

\* C31: after every pointer-move event of a drag the panel is at the
\* pointer's screen position minus the offset recorded at pointer-down, and
\* the event changes nothing else: the panel's size, the stored data and the
\* composed wallpaper stay as they were.
C31_DragTracksPointer ==
  [][MoveStep =>
       /\ win_pos' = <<ptr'[1] - drag_off[1], ptr'[2] - drag_off[2]>>
       /\ drag_off' = drag_off
       /\ drawn' = NoSize
       /\ UNCHANGED <<win_size, geomVars, storeVars, wallSet, saved_color_cache,
                      wallpaper_color_cache, last_min_wallpaper_size, min_bg_color,
                      min_img>>]_vars

C31_Witness ==
  /\ gesture = "move"
  /\ b1_down
  /\ drag_off # <<0, 0>>
  /\ win_pos = <<ptr[1] - drag_off[1], ptr[2] - drag_off[2]>>
  /\ win_pos # OpenPos
  /\ minimal_pos # win_pos


\* C32: a session ended by Stop, from Running or Paused, in countdown or in
\* countup mode, has _finish_session run exactly once: the log of finishes
\* of the session holds the one run made by stop_timer, and the session left
\* at most one record.
C32_StopFinishesOnce ==
  stop_seen => (Len(fin_log) = 1 /\ fin_log[1].src = "stop" /\ Len(sessions) <= 1)


\* C33: at most one thread ticks at a time: whatever Start, Pause, Resume
\* and Stop came before, a thread that has ticked before does not tick again
\* while the thread of a later session is alive.
C33_OneWorkerTicks ==
  [][\A i \in 1..Len(workers) :
       (HasTicked(i) /\ W_Tick(i)) =>
         \A j \in (i + 1)..Len(workers) : workers[j].pc = "done"]_vars


\* the event loop runs a _finish_session queued by the thread of a session
\* earlier than the one started last
StaleFinishStep ==
  /\ UIRun
  /\ Head(pending).cb = "_finish_session"
  /\ Head(pending).w < Len(workers)

\* C34: a _finish_session queued by the thread of an earlier session leaves
\* the session started after it alone: it does not clear the running flag
\* and it records nothing.
C34_StaleFinishHarmless ==
  [][StaleFinishStep =>
       (timer_running' = timer_running /\ UNCHANGED <<tasks, sessions>>)]_vars


\* the event loop applies a tick queued by a thread while the engine is
\* idle after a finished session
LateTickStep ==
  /\ ~timer_running
  /\ fin_log # <<>>
  /\ UIRun
  /\ Head(pending).cb = "_render_time"

\* C35: once _finish_session has reset the display, no tick of the ended
\* session is rendered: a tick still queued, or queued later, leaves the
\* main label and the panel label as they are.
C35_NoTickAfterFinish ==
  [][LateTickStep => UNCHANGED <<timer_label, minimal_label>>]_vars


\* C36: the throttled repaint of the main window stays live: at most one
\* repaint is queued at a time, the flag _repaint_scheduled is False again
\* once the queued repaint has run, and every <Configure> event of the layer
\* is followed in the end by a run of _apply_main_wallpaper.
C36_RepaintStaysLive ==
  /\ [](repaint_after <= 1)
  /\ [](repaint_after = 0 => ~repaint_scheduled)
  /\ (repaint_due ~> ~repaint_due)


\* the image item of the panel is the one a draw with the stored panel
\* settings gives for the panel's size
PanelComposed ==
  \E path \in _pick_min :
    min_img = IF path = "None" THEN NoImage
              ELSE Scaled(path, ShortSide(win_size[1], win_size[2], wallpaper_min_fit_pct))

\* a settings handler that went through: no exception left it, the main
\* stage's settings are as before and an open panel shows the new setting
AppliedToPanel ==
  /\ raised' = raised
  /\ UNCHANGED <<wallpaper_main_file, wallpaper_main_dir, wallpaper_fit_pct, wallpaper_align>>
  /\ (minimal_win # "None" /\ pil) => PanelComposed'

\* C37: applying a wallpaper setting of the floating panel (fit percent,
\* alignment, source file) stores the new value, raises no error, leaves the
\* main stage's wallpaper settings as they were and, with the panel open,
\* composes the panel wallpaper again with the new setting.
C37_PanelSettingApplies ==
  [][/\ \A v \in FitPcts :
          _apply_fit_pct("min", v) =>
            (wallpaper_min_fit_pct' = Max(50, Min(100, v)) /\ AppliedToPanel)
     /\ \A a \in Aligns :
          _apply_align_and_fit("min", a) => (wallpaper_min_align' = a /\ AppliedToPanel)
     /\ \A p \in Paths :
          _choose_wallpaper(TRUE, "min", p) => (wallpaper_min_file' = p /\ AppliedToPanel)]_vars

====
